---- MODULE Spec2Model ----
(***************************************************************************)
(* Model of opentimelineio/console/autogen_serialized_datamodel.py.        *)
(*                                                                         *)
(* Names (module names, paths) are sequences of one-character strings, so  *)
(* that startswith, split, rsplit, join and string comparison are modelled *)
(* by what they do.  Long names are abbreviated, keeping every prefix      *)
(* relation of the real names:                                             *)
(*   "o"      opentimelineio            "o.c"   opentimelineio.core        *)
(*   "o.s"    opentimelineio.schema     "o.t"   opentimelineio.opentime    *)
(*   "o.sd"   opentimelineio.schemadef  "o._o"  opentimelineio._otio       *)
(*   "o._t"   opentimelineio._opentime                                     *)
(***************************************************************************)
EXTENDS Integers, Sequences, FiniteSets, TLC

(***************************************************************************)
(* Strings                                                                 *)
(***************************************************************************)

\* Code point of the characters the model uses (Python compares str by code point).
Ord(c) ==
    CASE c = "'" -> 39
      [] c = "-" -> 45
      [] c = "." -> 46
      [] c = "/" -> 47
      [] c = "_" -> 95
      [] c = "a" -> 97
      [] c = "b" -> 98
      [] c = "c" -> 99
      [] c = "d" -> 100
      [] c = "m" -> 109
      [] c = "o" -> 111
      [] c = "p" -> 112
      [] c = "s" -> 115
      [] c = "t" -> 116
      [] c = "x" -> 120

Min(a, b) == IF a <= b THEN a ELSE b

\* str.__lt__: lexicographic comparison by code point; a proper prefix is smaller.
StrLess(a, b) ==
    \E i \in 1..(Min(Len(a), Len(b)) + 1) :
        /\ \A j \in 1..(i - 1) : a[j] = b[j]
        /\ IF i > Len(a) THEN i <= Len(b)
           ELSE /\ i <= Len(b)
                /\ Ord(a[i]) < Ord(b[i])

\* str.startswith
StartsWith(s, t) == Len(t) <= Len(s) /\ SubSeq(s, 1, Len(t)) = t

\* sorted(S, key=Key): the elements of the finite set S as a sequence, ordered by
\* their keys.  The keys of distinct elements are distinct in every use below.
SortedBy(S, Key(_)) ==
    [i \in 1..Cardinality(S) |->
        CHOOSE x \in S : Cardinality({y \in S : StrLess(Key(y), Key(x))}) = i - 1]

Range(s) == {s[i] : i \in 1..Len(s)}

\* The subsets of S with at most n elements.
RECURSIVE SubsetsUpTo(_, _)
SubsetsUpTo(S, n) ==
    IF n = 0 THEN {{}}
    ELSE LET P == SubsetsUpTo(S, n - 1)
         IN  P \cup {X \cup {e} : X \in P, e \in S}


(***************************************************************************)
(* The object model the tool inspects (an input of the program)            *)
(***************************************************************************)

N_otio    == <<"o">>
N_core    == <<"o", ".", "c">>
N_schema  == <<"o", ".", "s">>
N_plugin  == <<"o", ".", "s", "d", ".", "p">>

\* The namespaces of the traversal's universe, identified by __name__.
\* N_plugin is a module below opentimelineio.schemadef.
Mods == {N_otio, N_core, N_schema, N_plugin}

\* The root namespace: `otio` at line 219.
Root == N_otio

\* The classes of the object model: two schema classes, a value type, the marker
\* base class and a class that is not serializable.
Classes == {"Clip", "Track", "RationalTime", "SerializableObject", "OTIOError"}

\* The classes placed in the namespaces of the traversal's universe.
Placeable == {"Clip", "RationalTime", "SerializableObject", "OTIOError"}

\* cl.__name__, abbreviated to one letter
ClassName(cl) ==
    CASE cl = "Clip" -> <<"c">>
      [] cl = "Track" -> <<"t">>
      [] cl = "RationalTime" -> <<"a">>
      [] cl = "SerializableObject" -> <<"s">>
      [] cl = "OTIOError" -> <<"x">>

N_opentime  == <<"o", ".", "t">>
N_otioC     == <<"o", ".", "_", "o">>
N_opentimeC == <<"o", ".", "_", "t">>
N_sub       == <<"o", ".", "s", ".", "x">>
N_schemax   == <<"o", ".", "s", "x">>

\* The namespaces of the renderer's universe: the three public namespaces, the
\* two native ones and a module below opentimelineio.schema.
DMods == {N_schema, N_opentime, N_core, N_otioC, N_opentimeC, N_sub}

\* The values drawn for cl.__module__.
DeclNames == {N_otio, N_schema, N_sub, N_schemax, N_otioC}

\* issubclass(thing, otio.core.SerializableObject)
IsSerializableSubclass(cl) == cl \in {"Clip", "SerializableObject", "UnknownSchema", "TestObject"}

\* The tuple tested at lines 161-165.
ValueTypes == {"RationalTime", "TimeRange", "TimeTransform"}

SKIP_CLASSES == {"SerializableObject", "UnknownSchema", "TestObject"}

SKIP_KEYS == {"OTIO_SCHEMA", "children"}

SKIP_MODULES == {<<"o", ".", "s", "d">>, <<"o", ".", "_", "o">>, <<"o", ".", "_", "t">>}

\* Keys of a serialized instance other than the two bookkeeping keys.
DataKeys == {"name", "metadata"}

\* How a class carries a serialized key k:
\*   "property"  the class has a property named k
\*   "plain"     the class has an attribute named k that is not a property
\*   "private"   the class has no attribute k, but a property named "_" + k
\*   "instance"  only instances have an attribute k (set by the constructor)
\*   "none"      neither the class nor its instances have k or "_" + k
AttrKinds == {"property", "plain", "private", "instance", "none"}

\* Bounds of the drawn namespace graphs.
MaxEdges == 2
MaxPlacements == 2
MaxWalkEdges == 5
MaxClsEdges == 1
MaxClsPlacements == 1
MaxRemapEdges == 2
MaxHolders == 2
MaxDocEdges == 0

\* Cap of the call counter (never reached by the code: see CallsBelowCap).
MaxCalls == 9

VARIABLES
    modMods,       \* namespace -> the namespaces among mod.__dict__.values()
    modClasses,    \* namespace -> the classes among mod.__dict__.values()
    fieldKeys,     \* keys of json.loads(write_to_string(cl())), for every class
    attrKind,      \* data key -> how the classes carry it
    classes,       \* the running model: class -> (key -> documentation)
    modules,       \* the visitation set
    stack,         \* call stack of _generate_model_for_module
    pc,            \* "idle", "running", "done"
    entered,       \* namespace -> number of times the body was entered
    serialized,    \* class -> number of times line 176 instantiated it
    calls,         \* number of calls of _generate_model_for_module
    stderr,        \* keys reported by line 191
    members,       \* namespace -> the namespaces of mod.__dict__.values(), in dict order
    holders,       \* class -> the namespaces whose __dict__.values() contain it
    declMod,       \* class -> cl.__module__
    remapped,      \* class -> the value _remap_to_python_modules returned for it
    mdDocs,        \* md_with_helpstrings, as the sequence of its formatted blocks
    mdFields,      \* md_only_fields, as the sequence of its formatted blocks
    args,          \* the parsed command line of main
    dirs,          \* the named directories that exist in the file system
    files,         \* path -> content of the files main opened for writing
    stdout,        \* what main printed
    mainPc         \* position of main

inputVars == <<modMods, modClasses, fieldKeys, attrKind>>
genVars == <<classes, modules, stack, entered, serialized, calls, stderr>>
docInputVars == <<members, holders, declMod>>
docVars == <<remapped, mdDocs, mdFields>>
mainVars == <<args, dirs, files, stdout, mainPc>>

(***************************************************************************)
(* Lines 99-104 and 176-195: the serialized fields of one class            *)
(***************************************************************************)

\* Attribute names: k and "_" + k.
Attr(k) == <<k>>
Private(k) == <<"_">> \o <<k>>

\* getattr(cl, a) raises no AttributeError
ClassHasAttr(cl, a) ==
    \E k \in DataKeys :
        \/ a = Attr(k) /\ attrKind[k] \in {"property", "plain"}
        \/ a = Private(k) /\ attrKind[k] = "private"

\* getattr(cl(), a) raises no AttributeError
InstanceHasAttr(cl, a) ==
    \/ ClassHasAttr(cl, a)
    \/ \E k \in DataKeys : a = Attr(k) /\ attrKind[k] = "instance"

\* isinstance(getattr(cl, a), property), for an attribute the class has
IsProperty(cl, a) ==
    \E k \in DataKeys :
        \/ a = Attr(k) /\ attrKind[k] = "property"
        \/ a = Private(k) /\ attrKind[k] = "private"

\* inspect.getdoc(getattr(cl, a)): the documentation text of that attribute
GetDoc(cl, a) == <<"doc", cl, a>>

Raised == [raised |-> TRUE, val |-> ""]
Returned(v) == [raised |-> FALSE, val |-> v]

PROP_FETCHERS == 1..3

\* The three lambdas of PROP_FETCHERS; an AttributeError is the result Raised.
Fetcher(i, cl, k) ==
    CASE i = 1 -> IF ClassHasAttr(cl, Attr(k))
                  THEN Returned(GetDoc(cl, Attr(k))) ELSE Raised
      [] i = 2 -> IF ClassHasAttr(cl, Private(k))
                  THEN Returned(GetDoc(cl, Private(k))) ELSE Raised
      [] i = 3 -> IF InstanceHasAttr(cl, Attr(k))
                  THEN Returned("") ELSE Raised

\* Lines 185-186, one pass of the try block: the condition
\* isinstance(getattr(cl, k), property) is evaluated before the fetcher is called.
Attempt(i, cl, k) ==
    IF ~ClassHasAttr(cl, Attr(k)) THEN Raised
    ELSE IF IsProperty(cl, Attr(k)) THEN Fetcher(i, cl, k)
    ELSE Returned("")

\* Lines 181-191: the for/else over PROP_FETCHERS.
FetchProperty(cl, k) ==
    LET ok == {i \in PROP_FETCHERS : ~Attempt(i, cl, k).raised}
    IN  IF ok = {} THEN [found |-> FALSE, val |-> ""]
        ELSE LET first == CHOOSE i \in ok : \A j \in ok : i <= j
             IN  [found |-> TRUE, val |-> Attempt(first, cl, k).val]

\* field_dict["OTIO_SCHEMA"]: the schema label of the class
SchemaLabel(cl) == <<"schema", cl>>

\* Lines 175-195: model[cl]
ClassModel(cl) ==
    LET retained == {k \in fieldKeys \ SKIP_KEYS : FetchProperty(cl, k).found}
    IN  [k \in retained \cup {"OTIO_SCHEMA"} |->
            IF k = "OTIO_SCHEMA" THEN SchemaLabel(cl) ELSE FetchProperty(cl, k).val]

\* Line 191: the keys written to sys.stderr while cl is processed
ClassErrors(cl) == {k \in fieldKeys \ SKIP_KEYS : ~FetchProperty(cl, k).found}

(***************************************************************************)
(* Lines 151-220: _generate_model_for_module and _generate_model           *)
(***************************************************************************)

\* Lines 155-167: serializable_classes.  `and` binds tighter than `or`.
SerializableClasses(mod, cls) ==
    {thing \in modClasses[mod] :
        \/ /\ thing \notin DOMAIN cls
           /\ IsSerializableSubclass(thing)
        \/ thing \in ValueTypes}

\* Lines 170-195: model
ModuleModel(mod, cls) ==
    [cl \in SerializableClasses(mod, cls) \ SKIP_CLASSES |-> ClassModel(cl)]

\* dict.update
Update(d, e) ==
    [x \in DOMAIN d \cup DOMAIN e |-> IF x \in DOMAIN e THEN e[x] ELSE d[x]]

\* str(mod), up to the common prefix "<module '": the name and the closing quote
StrMod(m) == m \o <<"'">>

\* Line 206 with == in place of startswith
NotSkippedExact(name) == name \notin SKIP_MODULES

\* Line 206
NotSkipped(name) == \A t \in SKIP_MODULES : ~StartsWith(name, t)

\* Lines 200-210 without the test of line 205
NewModsUnvisited(mod, ms) ==
    SortedBy({thing \in modMods[mod] : NotSkipped(thing)}, StrMod)

\* Lines 200-210: new_mods
NewMods(mod, ms) ==
    SortedBy({thing \in modMods[mod] : thing \notin ms /\ NotSkipped(thing)}, StrMod)

\* One call of _generate_model_for_module(mod, classes, modules) up to line 210,
\* made with the frames `callers` below it; the recursive calls of line 213 are
\* the pending list of the pushed frame.
Enter(mod, callers) ==
    LET model == ModuleModel(mod, classes)
        ms    == modules \cup {mod}
    IN  /\ modules' = ms
        /\ classes' = Update(classes, model)
        /\ stack' = <<[mod |-> mod, pending |-> NewMods(mod, ms)]>> \o callers
        /\ entered' = [entered EXCEPT ![mod] = @ + 1]
        /\ serialized' = [cl \in Classes |->
                            IF cl \in DOMAIN model THEN serialized[cl] + 1
                            ELSE serialized[cl]]
        /\ stderr' = stderr \cup UNION {ClassErrors(cl) : cl \in DOMAIN model}
        /\ calls' = calls + 1

\* Lines 216-219: _generate_model calls _generate_model_for_module(otio, {}, set())
GenerateModel ==
    /\ pc = "idle"
    /\ pc' = "running"
    /\ Enter(Root, <<>>)
    /\ UNCHANGED <<inputVars, docInputVars, docVars, mainVars>>

\* Line 213: the next recursive call of the list comprehension
Recurse ==
    /\ pc = "running"
    /\ stack # <<>>
    /\ Head(stack).pending # <<>>
    /\ calls < MaxCalls
    /\ LET top == Head(stack)
       IN  Enter(Head(top.pending),
                 <<[top EXCEPT !.pending = Tail(top.pending)]>> \o Tail(stack))
    /\ UNCHANGED <<pc, inputVars, docInputVars, docVars, mainVars>>

\* Line 213 exhausted: the call returns
Return ==
    /\ pc = "running"
    /\ stack # <<>>
    /\ Head(stack).pending = <<>>
    /\ stack' = Tail(stack)
    /\ UNCHANGED <<pc, classes, modules, entered, serialized, calls, stderr>>
    /\ UNCHANGED <<inputVars, docInputVars, docVars, mainVars>>

\* Line 220: return classes
ReturnClasses ==
    /\ pc = "running"
    /\ stack = <<>>
    /\ pc' = "done"
    /\ UNCHANGED <<inputVars, genVars, docInputVars, docVars, mainVars>>


(***************************************************************************)
(* Lines 223-269: _search_mod_recursively and _remap_to_python_modules     *)
(***************************************************************************)

None == <<"None">>

\* SEARCH_MODULES listed in another order
SearchModulesCoreFirst == <<N_core, N_opentime, N_schema>>

SEARCH_MODULES == <<N_schema, N_opentime, N_core>>

IGNORE_MODS == {N_otioC, N_opentimeC}

\* _search_mod_recursively(cl, mod_to_search, already_searched), lines 224-241,
\* and its loop over child_modules from the position given by `rest`.  The result
\* carries the set already_searched as the call leaves it.
RECURSIVE SearchModRecursively(_, _, _), SearchChildren(_, _, _)
SearchModRecursively(cl, mod, already) ==
    IF mod \in holders[cl]
    THEN [result |-> mod, searched |-> already]
    ELSE SearchChildren(cl, members[mod], already)

SearchChildren(cl, rest, already) ==
    IF rest = <<>> THEN [result |-> None, searched |-> already]
    ELSE IF Head(rest) \in already THEN SearchChildren(cl, Tail(rest), already)
    ELSE LET r == SearchModRecursively(cl, Head(rest), already \cup {Head(rest)})
         IN  IF r.result # None THEN r
             ELSE SearchChildren(cl, Tail(rest), r.searched)

\* Lines 264-269: the loop over SEARCH_MODULES from position i, sharing one set.
RECURSIVE RemapFrom(_, _, _)
RemapFrom(cl, i, already) ==
    IF i > Len(SEARCH_MODULES) THEN declMod[cl]
    ELSE LET r == SearchModRecursively(cl, SEARCH_MODULES[i], already)
         IN  IF r.result # None THEN r.result
             ELSE RemapFrom(cl, i + 1, r.searched)

\* _remap_to_python_modules(cl)
RemapToPythonModules(cl) == RemapFrom(cl, 1, IGNORE_MODS)

\* A call of _remap_to_python_modules for a class declared in a native namespace
RemapCall ==
    /\ \E cl \in Classes :
        /\ declMod[cl] \in {N_opentimeC, N_otioC}
        /\ cl \notin DOMAIN remapped
        /\ remapped' = [c \in DOMAIN remapped \cup {cl} |->
                          IF c = cl THEN RemapToPythonModules(cl) ELSE remapped[c]]
    /\ UNCHANGED <<inputVars, genVars, pc, docInputVars, mdDocs, mdFields, mainVars>>

(***************************************************************************)
(* Lines 272-324: _write_documentation                                     *)
(***************************************************************************)

\* str.split(sep) for a one-character separator
RECURSIVE SplitOn(_, _)
SplitOn(s, sep) ==
    IF \A i \in 1..Len(s) : s[i] # sep THEN <<s>>
    ELSE LET i == CHOOSE j \in 1..Len(s) : s[j] = sep /\ \A l \in 1..(j - 1) : s[l] # sep
         IN  <<SubSeq(s, 1, i - 1)>> \o SplitOn(SubSeq(s, i + 1, Len(s)), sep)

\* str.split('.')
Split(s) == SplitOn(s, ".")

\* ".".join(parts)
RECURSIVE Join(_)
Join(parts) ==
    IF parts = <<>> THEN <<>>
    ELSE IF Len(parts) = 1 THEN parts[1]
    ELSE parts[1] \o <<".">> \o Join(Tail(parts))

\* Line 290: this_mod
ThisMod(path) == Join(SubSeq(Split(path), 1, Min(2, Len(Split(path)))))

\* Lines 281-284: modobj
ModObj(cl) ==
    IF declMod[cl] \in {N_opentimeC, N_otioC} THEN RemapToPythonModules(cl)
    ELSE declMod[cl]

\* Lines 279-286: modules, the classes of the model grouped by modobj
GroupedModules(model) ==
    [p \in {ModObj(cl) : cl \in DOMAIN model} |-> {cl \in DOMAIN model : ModObj(cl) = p}]

Identity(p) == p

\* Line 289 sorting by the last segment of the path only
LastSegment(p) == Split(p)[Len(Split(p))]
ModulesByLastSegment(paths) == SortedBy(paths, LastSegment)

\* Line 289: sorted(modules)
SortedModules(paths) == SortedBy(paths, Identity)

\* str(cl), up to the common prefix "<class '"
StrClass(cl) == declMod[cl] \o <<".">> \o ClassName(cl) \o <<"'">>

\* cl.__doc__
DocString(cl) == <<"docstring", cl>>

\* sorted(model[cl].items()): the keys of the model in str order
KeyOrder == <<"OTIO_SCHEMA", "children", "metadata", "name">>

SortedKeys(S) == SelectSeq(KeyOrder, LAMBDA k : k \in S)

Block(kind, name, path, text) == [kind |-> kind, name |-> name, path |-> path, text |-> text]

\* Lines 314-322: the field entries of one class
PropBlocks(entry, withDocs) ==
    LET keys == SortedKeys(DOMAIN entry \ SKIP_KEYS)
    IN  [i \in 1..Len(keys) |->
            Block("prop", keys[i], <<>>, IF withDocs THEN entry[keys[i]] ELSE "")]

\* Lines 299-322: one class
ClassBlocks(cl, thisMod, model, withDocs) ==
    LET modname == thisMod
        label   == model[cl]["OTIO_SCHEMA"]
    IN  <<IF withDocs
          THEN Block("class", label, modname \o <<".">> \o ClassName(cl), DocString(cl))
          ELSE Block("class", label, <<>>, "")>>
        \o PropBlocks(model[cl], withDocs)

RECURSIVE Concat(_)
Concat(seqs) == IF seqs = <<>> THEN <<>> ELSE Head(seqs) \o Concat(Tail(seqs))

\* Lines 288-322: the blocks written for the i-th group of the sorted groups.
\* CURRENT_MODULE is the this_mod of the previous group, None before the first.
GroupBlocks(sorted, i, model, withDocs) ==
    LET thisMod == ThisMod(sorted[i])
        current == IF i = 1 THEN None ELSE ThisMod(sorted[i - 1])
        cls     == SortedBy(GroupedModules(model)[sorted[i]], StrClass)
    IN  (IF thisMod # current THEN <<Block("module", thisMod, <<>>, "")>> ELSE <<>>)
        \o Concat([j \in 1..Len(cls) |-> ClassBlocks(cls[j], thisMod, model, withDocs)])

\* The document after its preamble
Document(model, withDocs) ==
    LET sorted == SortedModules(DOMAIN GroupedModules(model))
    IN  Concat([i \in 1..Len(sorted) |-> GroupBlocks(sorted, i, model, withDocs)])

\* Line 360: _write_documentation(model) on the model _generate_model returned
WriteDocumentation ==
    /\ pc = "done"
    /\ pc' = "written"
    /\ mdDocs' = Document(classes, TRUE)
    /\ mdFields' = Document(classes, FALSE)
    /\ UNCHANGED <<inputVars, genVars, docInputVars, remapped, mainVars>>

\* The renderer's inputs and outputs while only the traversal runs.
DocIdle ==
    /\ members = [m \in DMods |-> <<>>]
    /\ holders = [c \in Classes |-> {}]
    /\ declMod = [c \in Classes |-> N_schema]
    /\ remapped = <<>>
    /\ mdDocs = <<>>
    /\ mdFields = <<>>

(***************************************************************************)
(* Lines 327-355: main                                                     *)
(***************************************************************************)

\* Bound of the drawn --output paths.
MaxPathLen == 3

PathChars == {"a", ".", "/"}

\* The paths drawn for --output.
Paths == UNION {[1..n -> PathChars] : n \in 1..MaxPathLen}

NoArgs == [dryrun |-> FALSE, output |-> None]

\* What _parsed_args can return: --dryrun, --output PATH (mutually exclusive), or
\* neither.
ArgChoices ==
    {[dryrun |-> TRUE, output |-> None], NoArgs}
    \cup {[dryrun |-> FALSE, output |-> p] : p \in Paths}

\* "-only-fields."
OnlyFields == <<"-", "o", "n", "l", "y", "-", "f", "i", "e", "l", "d", "s", ".">>

\* tempfile.NamedTemporaryFile('w', suffix="otio_serialized_schema.md").name,
\* abbreviated: a file the call creates in the temporary directory "t"
TempName == <<"t", "/", "x", ".", "m", "d">>

\* The directories a drawn file system may have besides ".", ".." and "/".
NamedDirs == {<<"a">>, OnlyFields}

LastIndex(s, c) ==
    LET hits == {i \in 1..Len(s) : s[i] = c}
    IN  IF hits = {} THEN 0 ELSE CHOOSE i \in hits : \A j \in hits : j <= i

\* The directory part of a path and its last component
DirName(p) == SubSeq(p, 1, LastIndex(p, "/") - 1)
BaseName(p) == SubSeq(p, LastIndex(p, "/") + 1, Len(p))

\* The components of a directory path, without the empty ones and "."
Components(d) == SelectSeq(SplitOn(d, "/"), LAMBDA c : c # <<>> /\ c # <<".">>)

\* The directory exists: the working directory, the root and "..", the temporary
\* directory, and the named directories of the drawn file system.
DirExists(d) ==
    LET cs == Components(d)
    IN  \/ \A i \in 1..Len(cs) : cs[i] = <<".", ".">>
        \/ Len(cs) = 1 /\ (cs[1] \in dirs \/ cs[1] = <<"t">>)

\* open(p, 'w') raises no error: the directory of p exists and p names no directory
CanOpen(p) ==
    /\ BaseName(p) \notin {<<>>, <<".">>, <<".", ".">>}
    /\ DirExists(DirName(p))
    /\ ~DirExists(p)

\* output.rsplit('.', 1)
RSplit1(s) ==
    IF LastIndex(s, ".") = 0 THEN <<s>>
    ELSE <<SubSeq(s, 1, LastIndex(s, ".") - 1), SubSeq(s, LastIndex(s, ".") + 1, Len(s))>>

WriteFile(p, content) ==
    [q \in DOMAIN files \cup {p} |-> IF q = p THEN content ELSE files[q]]

\* Line 329: args = _parsed_args()
MainParseArgs ==
    /\ mainPc = "start"
    /\ args' \in ArgChoices
    /\ mainPc' = "parsed"
    /\ UNCHANGED <<inputVars, genVars, pc, docInputVars, docVars, dirs, files, stdout>>

\* Line 330: generate_and_write_documentation(), on the Model drawn in Init
MainGenerate ==
    /\ mainPc = "parsed"
    /\ WriteDocumentation

\* Lines 333-335: --dryrun prints the document and returns
MainDryrun ==
    /\ mainPc = "parsed"
    /\ pc = "written"
    /\ args.dryrun
    /\ stdout' = Append(stdout, mdDocs)
    /\ mainPc' = "returned"
    /\ UNCHANGED <<inputVars, genVars, pc, docInputVars, docVars, args, dirs, files>>

\* Lines 337-343: the path written to
Output == IF args.output = None \/ args.output = <<>> THEN TempName ELSE args.output

\* Lines 337-346: the full document is written, or open raises
MainWriteDocs ==
    /\ mainPc = "parsed"
    /\ pc = "written"
    /\ ~args.dryrun
    /\ IF CanOpen(Output)
       THEN /\ files' = WriteFile(Output, mdDocs)
            /\ mainPc' = "docs_written"
       ELSE /\ files' = files
            /\ mainPc' = "raised"
    /\ UNCHANGED <<inputVars, genVars, pc, docInputVars, docVars, args, dirs, stdout>>

\* Lines 349-355: the fields-only document is written and both paths printed, or
\* the unpacking of rsplit's result or open raises
MainWriteFields ==
    /\ mainPc = "docs_written"
    /\ LET parts == RSplit1(Output)
       IN  IF Len(parts) # 2
           THEN /\ mainPc' = "raised"
                /\ UNCHANGED <<files, stdout>>
           ELSE LET outputOnlyFields == parts[1] \o OnlyFields \o parts[2]
                IN  IF CanOpen(outputOnlyFields)
                    THEN /\ files' = WriteFile(outputOnlyFields, mdFields)
                         /\ stdout' = Append(stdout, <<Output, outputOnlyFields>>)
                         /\ mainPc' = "returned"
                    ELSE /\ mainPc' = "raised"
                         /\ UNCHANGED <<files, stdout>>
    /\ UNCHANGED <<inputVars, genVars, pc, docInputVars, docVars, args, dirs>>

NextMain == MainParseArgs \/ MainGenerate \/ MainDryrun \/ MainWriteDocs \/ MainWriteFields

\* main while only the other entry points run.
MainIdle ==
    /\ args = NoArgs
    /\ dirs = {}
    /\ files = <<>>
    /\ stdout = <<>>
    /\ mainPc = "start"

\* The namespace graphs and class placements drawn for the traversal.
EdgeSets(n) == SubsetsUpTo(Mods \X Mods, n)

\* The same without namespaces that list themselves (the walk family has them).
ProperEdgeSets(n) == SubsetsUpTo({e \in Mods \X Mods : e[1] # e[2]}, n)
PlacementSets(n) == SubsetsUpTo(Mods \X Placeable, n)

\* Every class carries every data key as a property: the usual layout.
DefaultKinds == [k \in DataKeys |-> "property"]

InitGen(edges, placements, keySets, kinds) ==
    /\ \E E \in edges : modMods = [m \in Mods |-> {n \in Mods : <<m, n>> \in E}]
    /\ \E P \in placements : modClasses = [m \in Mods |-> {c \in Classes : <<m, c>> \in P}]
    /\ \E K \in keySets : fieldKeys = K \cup {"OTIO_SCHEMA"}
    /\ attrKind \in kinds
    /\ classes = <<>>
    /\ modules = {}
    /\ stack = <<>>
    /\ pc = "idle"
    /\ entered = [m \in Mods |-> 0]
    /\ serialized = [c \in Classes |-> 0]
    /\ calls = 0
    /\ stderr = {}
    /\ DocIdle
    /\ MainIdle

Init == InitGen(ProperEdgeSets(MaxEdges), PlacementSets(MaxPlacements),
                {DataKeys \cup {"children"}}, {DefaultKinds})

\* Namespace graphs without classes: the traversal alone.
InitWalk == InitGen(EdgeSets(MaxWalkEdges), {{}}, {DataKeys \cup {"children"}},
                    {DefaultKinds})

\* One class at most, with every layout of its serialized keys.
InitCls == InitGen(EdgeSets(MaxClsEdges), PlacementSets(MaxClsPlacements),
                   SUBSET (DataKeys \cup {"children"}), [DataKeys -> AttrKinds])

\* The traversal's inputs and state while only the renderer runs.
GenIdle ==
    /\ modMods = [m \in Mods |-> {}]
    /\ modClasses = [m \in Mods |-> {}]
    /\ modules = {}
    /\ stack = <<>>
    /\ entered = [m \in Mods |-> 0]
    /\ serialized = [c \in Classes |-> 0]
    /\ calls = 0
    /\ stderr = {}

\* The classes that can be keys of a Model.
ModelClasses == {"Clip", "Track", "RationalTime"}

\* Membership edges between the renderer's namespaces.  The two native
\* namespaces are in already_searched from the start, so their own members are
\* never read and are left out.
DocEdgeSets(n) == SubsetsUpTo((DMods \ IGNORE_MODS) \X DMods, n)

\* dict order of the member namespaces: by name, ascending or descending
Reverse(q) == [i \in 1..Len(q) |-> q[Len(q) + 1 - i]]
DictOrder(S, rev) == IF rev THEN Reverse(SortedBy(S, Identity)) ELSE SortedBy(S, Identity)

\* One class declared in a native namespace, in a drawn namespace graph.
InitRemap ==
    /\ GenIdle
    /\ fieldKeys = DataKeys \cup {"OTIO_SCHEMA", "children"}
    /\ attrKind = DefaultKinds
    /\ classes = <<>>
    /\ pc = "idle"
    /\ \E E \in DocEdgeSets(MaxRemapEdges) : \E rev \in BOOLEAN :
          members = [m \in DMods |-> DictOrder({n \in DMods : <<m, n>> \in E}, rev)]
    /\ \E H \in SubsetsUpTo(DMods, MaxHolders) :
          holders = [c \in Classes |-> IF c = "Clip" THEN H ELSE {}]
    /\ \E d \in IGNORE_MODS :
          declMod = [c \in Classes |-> IF c = "Clip" THEN d ELSE N_schema]
    /\ remapped = <<>>
    /\ mdDocs = <<>>
    /\ mdFields = <<>>
    /\ MainIdle

\* The state after _generate_model returned a Model with the keys K, for drawn
\* declaring namespaces of its classes.
InitDoc(keySets, edges, keyChoices, kinds, dirSets) ==
    /\ GenIdle
    /\ \E F \in keyChoices : fieldKeys = F \cup {"OTIO_SCHEMA"}
    /\ attrKind \in kinds
    /\ \E K \in keySets :
        /\ classes = [c \in K |-> ClassModel(c)]
        /\ \E D \in [K -> DeclNames] :
            /\ declMod = [c \in Classes |-> IF c \in K THEN D[c] ELSE N_schema]
            /\ \E H \in [{c \in K : D[c] \in IGNORE_MODS} -> {{}} \cup {{m} : m \in DMods}] :
                 holders = [c \in Classes |-> IF c \in DOMAIN H THEN H[c] ELSE {}]
    /\ pc = "done"
    /\ \E E \in edges : \E rev \in BOOLEAN :
          members = [m \in DMods |-> DictOrder({n \in DMods : <<m, n>> \in E}, rev)]
    /\ remapped = <<>>
    /\ mdDocs = <<>>
    /\ mdFields = <<>>
    /\ dirSets
    /\ args = NoArgs
    /\ files = <<>>
    /\ stdout = <<>>
    /\ mainPc = "start"

\* Models of up to three classes with the usual layout of their keys; the
\* namespace graphs are those of InitRemap with fewer edges.
InitDocs == InitDoc(SUBSET ModelClasses \ {{}}, DocEdgeSets(MaxDocEdges),
                    {DataKeys \cup {"children"}}, {DefaultKinds}, dirs = {})

\* Models of one class, with every layout of its serialized keys.
InitDocCls == InitDoc({{c} : c \in ModelClasses}, {{}},
                      SUBSET (DataKeys \cup {"children"}), [DataKeys -> AttrKinds],
                      dirs = {})

\* Models of one class with the usual layout, in a drawn file system.
InitMain == InitDoc({{c} : c \in ModelClasses}, {{}}, {DataKeys \cup {"children"}},
                    {DefaultKinds}, dirs \in SUBSET NamedDirs)

Next == GenerateModel \/ Recurse \/ Return \/ ReturnClasses

vars == <<inputVars, genVars, pc, docInputVars, docVars, mainVars>>

Spec == Init /\ [][Next]_vars

SpecWalk == InitWalk /\ [][Next]_vars

\* The interpreter runs the single thread until it returns: every enabled step
\* is eventually taken.
FairWalk == InitWalk /\ [][Next]_vars /\ WF_vars(Next)

SpecCls == InitCls /\ [][Next]_vars

SpecRemap == InitRemap /\ [][RemapCall]_vars

SpecDoc == InitDocs /\ [][WriteDocumentation]_vars

SpecDocCls == InitDocCls /\ [][WriteDocumentation]_vars

SpecMain == InitMain /\ [][NextMain]_vars

(***************************************************************************)
(* Claims about the traversal                                              *)
(***************************************************************************)

\* C1: in one run of _generate_model the traversal body is entered at most once
\* for each namespace.
C1_EnteredAtMostOnce == \A m \in Mods : entered[m] <= 1

\* The namespaces reachable from the root through namespaces whose names start
\* with no SKIP_MODULES prefix.
HasSkipPrefix(name) ==
    \E t \in SKIP_MODULES :
        /\ Len(t) <= Len(name)
        /\ \A i \in 1..Len(t) : name[i] = t[i]

RECURSIVE Closure(_)
Closure(S) ==
    LET T == S \cup {n \in Mods : ~HasSkipPrefix(n) /\ \E m \in S : n \in modMods[m]}
    IN  IF T = S THEN S ELSE Closure(T)

Reachable == Closure({Root})

ExpectedTypes ==
    {T \in Classes :
        /\ \E m \in Reachable : T \in modClasses[m]
        /\ IsSerializableSubclass(T) \/ T \in ValueTypes
        /\ T \notin SKIP_CLASSES}

\* C2: when _generate_model returns, the keys of the Model are exactly the
\* qualifying types of the root and of the namespaces reachable from it through
\* namespaces that are not denylisted, without the types of SKIP_CLASSES.
C2_ModelKeys == pc = "done" => DOMAIN classes = ExpectedTypes

\* C2 witness: a run that returned a type found only below the root, while a
\* denylisted class and a class that is not serializable were members too.
C2_Witness ==
    /\ pc = "done"
    /\ \E T \in DOMAIN classes : T \notin modClasses[Root]
    /\ \E m \in Reachable : modClasses[m] \ DOMAIN classes # {}

NumEdges == Cardinality({e \in Mods \X Mods : e[2] \in modMods[e[1]]})

\* C6: the recursion started from the root returns, and the number of calls is
\* at most one more than the number of membership edges.
C6_Terminates == <>(pc = "done") /\ [](calls <= NumEdges + 1)

\* C6 witness: a run over a graph with a cycle through the root has returned.
C6_Witness ==
    /\ pc = "done"
    /\ \E m \in Mods \ {Root} : m \in modMods[Root] /\ Root \in modMods[m]
    /\ calls >= 3

\* The cap of the call counter is never what stops a run.
CallsBelowCap == calls < MaxCalls

\* C9: every type is instantiated and serialized at most once in one run.
C9_SerializedOnce == \A c \in Classes : serialized[c] <= 1

\* The result a strategy of PROP_FETCHERS gives by itself.
FirstStrategy(cl, k) ==
    LET ok == {i \in PROP_FETCHERS : ~Fetcher(i, cl, k).raised}
    IN  CHOOSE i \in ok : \A j \in ok : i <= j

\* C4: for a retained key some strategy can look up, the recorded documentation
\* is that of the first strategy raising no lookup error (empty for an attribute
\* that is not a property, lines 183-186) and no diagnostic is written for it.
C4_FirstStrategyWins ==
    pc = "done" =>
        \A cl \in DOMAIN classes : \A k \in fieldKeys \ SKIP_KEYS :
            (\E i \in PROP_FETCHERS : ~Fetcher(i, cl, k).raised) =>
                /\ k \in DOMAIN classes[cl]
                /\ classes[cl][k] =
                     IF ClassHasAttr(cl, Attr(k)) /\ ~IsProperty(cl, Attr(k)) THEN ""
                     ELSE Fetcher(FirstStrategy(cl, k), cl, k).val
                /\ k \notin stderr


(***************************************************************************)
(* Claims about the remapping and the renderer                             *)
(***************************************************************************)

CanonicalOrder == <<<<"o", ".", "s">>, <<"o", ".", "t">>, <<"o", ".", "c">>>>
OpaqueNamespaces == {<<"o", ".", "_", "o">>, <<"o", ".", "_", "t">>}

\* The namespaces reachable from S through members that are not opaque.
RECURSIVE PublicClosure(_)
PublicClosure(S) ==
    LET T == S \cup {n \in DMods \ OpaqueNamespaces :
                        \E m \in S : \E i \in 1..Len(members[m]) : members[m][i] = n}
    IN  IF T = S THEN S ELSE PublicClosure(T)

\* The namespaces at or below the canonical namespace c that have cl as a member.
HoldersBelow(cl, c) == holders[cl] \cap PublicClosure({c})

\* The position of the first canonical namespace with cl at or below it, or 0.
FirstCanonical(cl) ==
    LET hits == {i \in 1..Len(CanonicalOrder) : HoldersBelow(cl, CanonicalOrder[i]) # {}}
    IN  IF hits = {} THEN 0 ELSE CHOOSE i \in hits : \A j \in hits : i <= j

\* C5 as stated: the result is the path of the first canonical namespace that has
\* the type at or below it, and the raw declaring namespace if there is none.
C5_CanonicalPath ==
    \A cl \in DOMAIN remapped :
        remapped[cl] = IF FirstCanonical(cl) = 0 THEN declMod[cl]
                       ELSE CanonicalOrder[FirstCanonical(cl)]

\* C5 amended: the result is the path of a namespace that has the type as a
\* member, at or below the first canonical namespace with such a namespace; it
\* is that canonical namespace when the type is a member of it, and the raw
\* declaring namespace if there is none.
C5_HoldingNamespace ==
    \A cl \in DOMAIN remapped :
        LET i == FirstCanonical(cl)
        IN  IF i = 0 THEN remapped[cl] = declMod[cl]
            ELSE /\ remapped[cl] \in HoldersBelow(cl, CanonicalOrder[i])
                 /\ CanonicalOrder[i] \in holders[cl] => remapped[cl] = CanonicalOrder[i]

\* C5 witness: a type that is a member only of a descendant of a canonical
\* namespace, and of something below two canonical namespaces, was remapped.
C5_Witness ==
    \E cl \in DOMAIN remapped :
        /\ FirstCanonical(cl) # 0
        /\ CanonicalOrder[FirstCanonical(cl)] \notin holders[cl]
        /\ \E j \in 1..Len(CanonicalOrder) :
              j # FirstCanonical(cl) /\ HoldersBelow(cl, CanonicalOrder[j]) # {}

\* The effective namespace of a class of the Model.
EffectiveNamespace(cl) ==
    IF declMod[cl] \in OpaqueNamespaces THEN RemapToPythonModules(cl) ELSE declMod[cl]

\* The class a class heading belongs to: its label is the class's schema label.
HeadingClass(b) == b.name[2]

ClassHeadings(doc) == {i \in 1..Len(doc) : doc[i].kind = "class"}
ModuleHeadings(doc) == {i \in 1..Len(doc) : doc[i].kind = "module"}

\* C8: the display path of every class heading is the full effective namespace
\* of the class, a dot and the class's local name.
C8_FullDisplayPath ==
    pc = "written" =>
        \A i \in ClassHeadings(mdDocs) :
            mdDocs[i].path = EffectiveNamespace(HeadingClass(mdDocs[i])) \o <<".">>
                               \o ClassName(HeadingClass(mdDocs[i]))

\* The keys of the field entries that follow the heading of cl in a document.
EmittedKeys(doc, cl) ==
    {doc[j].name : j \in {j \in 1..Len(doc) :
        /\ doc[j].kind = "prop"
        /\ \E i \in ClassHeadings(doc) :
              /\ HeadingClass(doc[i]) = cl
              /\ i < j
              /\ \A l \in (i + 1)..j : doc[l].kind = "prop"}}

\* C3: the field keys emitted for every type of the Model are the keys of its
\* serialized instance without "OTIO_SCHEMA" and "children".
C3_EmittedKeys ==
    pc = "written" =>
        \A cl \in DOMAIN classes :
            /\ EmittedKeys(mdDocs, cl) = fieldKeys \ {"OTIO_SCHEMA", "children"}
            /\ EmittedKeys(mdFields, cl) = fieldKeys \ {"OTIO_SCHEMA", "children"}

\* The first two dot-separated segments of a path.
FirstTwoSegments(p) ==
    LET dots == {i \in 1..Len(p) : p[i] = "."}
    IN  IF Cardinality(dots) < 2 THEN p
        ELSE LET second == CHOOSE i \in dots : Cardinality({j \in dots : j < i}) = 1
             IN  [k \in 1..(second - 1) |-> p[k]]

HeadingsInOrder(doc) ==
    /\ \A i, j \in ModuleHeadings(doc) : i # j => doc[i].name # doc[j].name
    /\ \A i \in ClassHeadings(doc) :
          \E h \in ModuleHeadings(doc) :
              /\ h < i
              /\ \A g \in ModuleHeadings(doc) : g < i => g <= h
              /\ doc[h].name = FirstTwoSegments(EffectiveNamespace(HeadingClass(doc[i])))

\* C10: in both documents a namespace heading is emitted at most once, and every
\* type follows the heading named by the first two segments of its effective
\* namespace with no other heading in between.
C10_Headings ==
    pc = "written" => HeadingsInOrder(mdDocs) /\ HeadingsInOrder(mdFields)

\* C10 witness: a document with several headings, one of them followed by types
\* of two different effective namespaces.
C10_Witness ==
    /\ pc = "written"
    /\ Cardinality(ModuleHeadings(mdDocs)) >= 2
    /\ \E i, j \in ClassHeadings(mdDocs) :
          /\ i < j
          /\ \A l \in i..j : mdDocs[l].kind # "module"
          /\ EffectiveNamespace(HeadingClass(mdDocs[i]))
               # EffectiveNamespace(HeadingClass(mdDocs[j]))


(***************************************************************************)
(* Claims about main                                                       *)
(***************************************************************************)

\* The sibling path of p: "-only-fields" inserted before the last '.' of p's last
\* component, or appended when that component has no '.'.
SiblingPath(p) ==
    LET slash == LastIndex(p, "/")
        dot   == LastIndex(p, ".")
    IN  IF dot > slash
        THEN SubSeq(p, 1, dot - 1) \o <<"-", "o", "n", "l", "y", "-", "f", "i", "e", "l", "d", "s">>
               \o SubSeq(p, dot, Len(p))
        ELSE p \o <<"-", "o", "n", "l", "y", "-", "f", "i", "e", "l", "d", "s">>

\* C7: no run of main given --output P ends with P written and the fields-only
\* rendering not written to P's sibling path.
C7_BothWritten ==
    (mainPc \in {"returned", "raised"} /\ args.output # None /\ args.output \in DOMAIN files)
        => /\ SiblingPath(args.output) \in DOMAIN files
           /\ files[SiblingPath(args.output)] = mdFields

====
